---- MODULE Spec2Model ----
(***************************************************************************)
(* Diagnostic scripts of video-annotation-viewer:                          *)
(*   scripts/test_api_quick.py      - APIQuickTester, the quick-test suite *)
(*   scripts/diagnose_failed_jobs.py - the job-failure triage              *)
(*   scripts/check_openapi.py       - the OpenAPI endpoint check           *)
(* Each script is a sequential program; one action per network step.       *)
(***************************************************************************)
EXTENDS Integers, Sequences, FiniteSets, TLC

VARIABLES
    \* ---- test_api_quick.py ----
    pc,         \* position of the suite run (which probe is next)
    idx,        \* loop index of the missing-endpoints / debug-endpoints loops
    results,    \* self.results: [passed, failed, details]
    job_id,     \* local job_id of test_job_endpoints / run_all_tests
    sent,       \* the requests the suite has issued, each with the outcome it met
    saved,      \* content of test_results_api.json (run summary), or NoFile
    exit_code,  \* <<argument of sys.exit>>, or NotExited
    \* ---- diagnose_failed_jobs.py ----
    tpc,        \* position of analyze_failed_jobs
    health,     \* local health
    jobs_response, \* local jobs_response
    jobs,       \* local jobs
    failed_jobs,   \* local failed_jobs
    fi,         \* loop index i of the loop over failed_jobs (1-based)
    diagnostics,   \* local diagnostics (None before it is built)
    output_file,   \* content of failed_jobs_diagnostics.json, or NoFile
    fetched,    \* the requests the triage has issued, each with the outcome it met
    \* ---- check_openapi.py ----
    opc,        \* position of the script
    openapi_spec,  \* global openapi_spec (None before it is assigned)
    paths,      \* the keys of global paths
    pi,         \* position of the for loop in sorted(paths.keys()) (1-based)
    endpoints,  \* the five lists system_endpoints .. other_endpoints, by category
    spec_file,  \* content of server_actual_api_spec.json, or NoFile
    \* ---- environment ----
    base,       \* the answer the server gives to a request unless it deviates
    dev         \* number of requests so far whose outcome deviated from base

suiteVars == <<pc, idx, results, job_id, sent, saved, exit_code>>
triageVars == <<tpc, health, jobs_response, jobs, failed_jobs, fi, diagnostics,
                output_file, fetched>>
envVars == <<base, dev>>
openapiVars == <<opc, openapi_spec, paths, pi, endpoints, spec_file>>
vars == <<suiteVars, triageVars, envVars, openapiVars>>

(***************************************************************************)
(* Bounds of the model.                                                    *)
(***************************************************************************)
\* requests of one run whose outcome may differ from the server's base answer
MaxDeviations == 1
\* length of the job collection the server returns
MaxJobs == 2
\* number of paths in the OpenAPI document the server returns
MaxPaths == 3

(***************************************************************************)
(* Python values: None, str, int and dict, with Python's truthiness.       *)
(***************************************************************************)
None == [t |-> "None"]
PyStr(s) == [t |-> "str", v |-> s]
PyInt(n) == [t |-> "int", v |-> n]
PyDict(d) == [t |-> "dict", v |-> d]
EmptyDict == [t |-> "dict", v |-> <<>>]

Truthy(x) ==
    CASE x.t = "None" -> FALSE
      [] x.t = "str" -> x.v # ""
      [] x.t = "int" -> x.v # 0
      [] x.t = "dict" -> DOMAIN x.v # {}

\* a or b
PyOr(a, b) == IF Truthy(a) THEN a ELSE b

\* d.get(k, default)
Get(d, k, default) == IF k \in DOMAIN d.v THEN d.v[k] ELSE default

\* str(x) inside an f-string
Format(x) == IF x.t = "None" THEN "None" ELSE x.v

(***************************************************************************)
(* Outcome of one HTTP request (requests.get / requests.post).             *)
(*   kind   "response": a response arrived; "timeout": the call raised     *)
(*          requests.exceptions.Timeout; "error": it raised another        *)
(*          exception (connection refused, DNS failure)                    *)
(*   status the status code of the response                                *)
(*   body   "json": resp.json() and the field accesses on it succeed;      *)
(*          "json_noid" / "json_emptyid": as "json", 'id' absent / empty;  *)
(*          "malformed": resp.json() or a field access raises              *)
(*   stream what iterating resp.iter_lines() meets: "data": a 'data:'      *)
(*          line; "closed": the stream ends without one; "timeout" /       *)
(*          "error": the iteration raises                                  *)
(***************************************************************************)
Resp(s, b, st) == [kind |-> "response", status |-> s, body |-> b, stream |-> st]
R(s) == Resp(s, "json", "data")
TimeoutExc == [kind |-> "timeout", status |-> 0, body |-> "none", stream |-> "none"]
OtherExc == [kind |-> "error", status |-> 0, body |-> "none", stream |-> "none"]

\* a server answers every request alike: not at all, or with one status; a 200
\* may carry the JSON the client expects or a body it cannot use
BaseOutcomes ==
    {TimeoutExc, OtherExc, R(200), Resp(200, "malformed", "data"), R(401), R(404),
     R(500)}
GetOutcomes == BaseOutcomes
SubmitOutcomes == BaseOutcomes \cup
    {R(201), R(422), Resp(201, "json_noid", "data"),
     Resp(201, "json_emptyid", "data"), Resp(201, "malformed", "data")}
StreamOutcomes == BaseOutcomes \cup
    {Resp(200, "json", "closed"), Resp(200, "json", "timeout"),
     Resp(200, "json", "error")}

\* f"{resp.status_code}"
Str(s) ==
    CASE s = 200 -> "200" [] s = 201 -> "201" [] s = 300 -> "300"
      [] s = 401 -> "401" [] s = 404 -> "404" [] s = 422 -> "422"
      [] s = 500 -> "500" [] OTHER -> "0"

\* f"{e}" of the exception a failed call raised
ExcText(o) ==
    CASE o.kind = "timeout" -> "timed out"
      [] o.kind = "error" -> "connection refused"
      [] OTHER -> "Expecting value"

\* the environment: a request meets the base answer, or deviates while allowed
Meets(o) == o = base \/ dev < MaxDeviations
Deviate(o) == dev' = IF o = base THEN dev ELSE dev + 1

(***************************************************************************)
(* test_api_quick.py                                                       *)
(***************************************************************************)
NoFile == [t |-> "None"]
\* exit_code before sys.exit is reached; <<c>> after sys.exit(c)
NotExited == <<>>

V(passed, details) == [passed |-> passed, details |-> details]
ExceptionVerdict(o) == V(FALSE, <<"Exception: ", ExcText(o)>>)
\* resp.json() and the accesses that follow it raise
JsonRaises(o) == o.body = "malformed"

\* mutant of _log_result: the counter is chosen wrongly, every verdict counts as passed
log_result_counts_all_passed(res, test_name, passed, details) ==
    [passed  |-> res.passed + 1,
     failed  |-> res.failed,
     details |-> Append(res.details,
                        [test |-> test_name, passed |-> passed, details |-> details])]

\* APIQuickTester._log_result (the timestamp of the entry is not modelled)
_log_result(res, test_name, passed, details) ==
    [passed  |-> IF passed THEN res.passed + 1 ELSE res.passed,
     failed  |-> IF passed THEN res.failed ELSE res.failed + 1,
     details |-> Append(res.details,
                        [test |-> test_name, passed |-> passed, details |-> details])]

\* test_health_endpoints: Basic Health Check
BasicHealthCheck(o) ==
    IF o.kind # "response" THEN ExceptionVerdict(o)
    ELSE LET passed == o.status = 200
             details == <<"Status: ", Str(o.status)>>
         IN  IF passed
             THEN IF JsonRaises(o) THEN ExceptionVerdict(o)
                  ELSE V(passed, details \o <<", Server status: ", "healthy">>)
             ELSE V(passed, details)

\* mutant of DetailedHealthCheck: the failing detail does not echo the status code
DetailedHealthCheckNoStatus(o) ==
    IF o.kind # "response" THEN ExceptionVerdict(o)
    ELSE LET passed == o.status = 200
             details == <<"Status: ", Str(o.status)>>
         IN  IF passed
             THEN IF JsonRaises(o) THEN ExceptionVerdict(o)
                  ELSE V(passed, details \o <<", DB status: ", "healthy">>)
             ELSE V(passed, <<"Unhealthy">>)

\* test_health_endpoints: Detailed Health Check
DetailedHealthCheck(o) ==
    IF o.kind # "response" THEN ExceptionVerdict(o)
    ELSE LET passed == o.status = 200
             details == <<"Status: ", Str(o.status)>>
         IN  IF passed
             THEN IF JsonRaises(o) THEN ExceptionVerdict(o)
                  ELSE V(passed, details \o <<", DB status: ", "healthy">>)
             ELSE V(passed, details)

\* test_authentication: Authentication Test
AuthenticationTest(o) ==
    IF o.kind # "response" THEN ExceptionVerdict(o)
    ELSE LET passed == o.status \in {200, 401}
             details == <<"Status: ", Str(o.status)>>
         IN  IF o.status = 200
             THEN IF JsonRaises(o) THEN ExceptionVerdict(o)
                  ELSE V(passed, details \o <<", Jobs accessible: ", "0", " jobs">>)
             ELSE IF o.status = 401
             THEN V(passed, details \o <<" (Authentication required - expected)">>)
             ELSE V(passed, details)

\* test_authentication: Token Debug Info
TokenDebugInfo(o) ==
    IF o.kind # "response" THEN ExceptionVerdict(o)
    ELSE IF o.status = 200
         THEN IF JsonRaises(o) THEN ExceptionVerdict(o)
              ELSE V(TRUE, <<"Token valid: ", "True", ", Permissions: ", "0">>)
         ELSE IF o.status = 404
         THEN V(TRUE, <<"Endpoint not implemented yet (expected)">>)
         ELSE V(FALSE, <<"Status: ", Str(o.status)>>)

\* test_pipelines: Pipeline List
PipelineList(o) ==
    IF o.kind # "response" THEN ExceptionVerdict(o)
    ELSE LET passed == o.status = 200
             details == <<"Status: ", Str(o.status)>>
         IN  IF passed
             THEN IF JsonRaises(o) THEN ExceptionVerdict(o)
                  ELSE V(passed, details \o <<", Available: ", "0", " pipelines">>)
             ELSE V(passed, details)

\* test_pipelines: Pipeline Debug Info
PipelineDebugInfo(o) ==
    IF o.kind # "response" THEN ExceptionVerdict(o)
    ELSE IF o.status = 200
         THEN IF JsonRaises(o) THEN ExceptionVerdict(o)
              ELSE V(TRUE, <<"Debug info available for ", "0", " pipelines">>)
         ELSE IF o.status = 404
         THEN V(TRUE, <<"Debug endpoint not implemented yet (expected)">>)
         ELSE V(FALSE, <<"Status: ", Str(o.status)>>)

\* mutant of JobList: 401 is no longer accepted
JobListOnly200(o) ==
    IF o.kind # "response" THEN ExceptionVerdict(o)
    ELSE LET passed == o.status = 200
             details == <<"Status: ", Str(o.status)>>
         IN  IF o.status = 200
             THEN IF JsonRaises(o) THEN ExceptionVerdict(o)
                  ELSE V(passed, details \o <<", Total jobs: ", "0">>)
             ELSE V(passed, details)

\* test_job_endpoints: Job List
JobList(o) ==
    IF o.kind # "response" THEN ExceptionVerdict(o)
    ELSE LET passed == o.status \in {200, 401}
             details == <<"Status: ", Str(o.status)>>
         IN  IF o.status = 200
             THEN IF JsonRaises(o) THEN ExceptionVerdict(o)
                  ELSE V(passed, details \o <<", Total jobs: ", "0">>)
             ELSE V(passed, details)

\* test_job_endpoints: job_data.get('id') of a 201 response whose body parsed
SubmittedId(o) ==
    CASE o.body = "json" -> PyStr("job-1")
      [] o.body = "json_emptyid" -> PyStr("")
      [] OTHER -> None

\* mutant of JobIdAfterSubmission: the id is read from the body of any response
JobIdIgnoringStatus(o) ==
    IF o.kind = "response" /\ ~JsonRaises(o)
    THEN SubmittedId(o)
    ELSE None

\* test_job_endpoints: the value of job_id after the Job Submission block
JobIdAfterSubmission(o) ==
    IF o.kind = "response" /\ o.status = 201 /\ ~JsonRaises(o)
    THEN SubmittedId(o)
    ELSE None

\* test_job_endpoints: Job Submission
JobSubmission(o) ==
    IF o.kind # "response" THEN ExceptionVerdict(o)
    ELSE LET passed == o.status \in {201, 401, 422}
             details == <<"Status: ", Str(o.status)>>
         IN  IF o.status = 201
             THEN IF JsonRaises(o) THEN ExceptionVerdict(o)
                  ELSE V(passed, details \o <<", Job ID: ", Format(SubmittedId(o))>>)
             ELSE IF o.status = 401
             THEN V(passed, details \o <<" (Authentication required)">>)
             ELSE IF o.status = 422
             THEN V(passed, details \o <<" (Validation error - expected for mock data)">>)
             ELSE V(passed, details)

\* test_job_endpoints: Job Status Retrieval
JobStatusRetrieval(o) ==
    IF o.kind # "response" THEN ExceptionVerdict(o)
    ELSE LET passed == o.status = 200
             details == <<"Status: ", Str(o.status)>>
         IN  IF passed
             THEN IF JsonRaises(o) THEN ExceptionVerdict(o)
                  ELSE V(passed, details \o <<", Job status: ", "pending">>)
             ELSE V(passed, details)

\* test_missing_endpoints: the list missing_endpoints
missing_endpoints ==
    << <<"/api/v1/events/stream", "SSE Endpoint">>,
       <<"/api/v1/jobs/123/results", "Job Results Download">>,
       <<"/api/v1/jobs/123/artifacts", "Job Artifacts">>,
       <<"/api/v1/videos", "Video Upload">> >>

\* f"{name} Endpoint"
MissingTestName(i) ==
    CASE i = 1 -> "SSE Endpoint Endpoint"
      [] i = 2 -> "Job Results Download Endpoint"
      [] i = 3 -> "Job Artifacts Endpoint"
      [] OTHER -> "Video Upload Endpoint"

\* test_missing_endpoints: the body of the loop
MissingEndpoint(o) ==
    IF o.kind # "response" THEN ExceptionVerdict(o)
    ELSE LET expected_404 == o.status = 404
             details == <<"Status: ", Str(o.status)>>
         IN  IF ~expected_404
             THEN V(TRUE, details \o <<" (Unexpectedly implemented!)">>)
             ELSE V(TRUE, details \o <<" (Missing as expected)">>)

\* test_debug_endpoints: the list debug_endpoints
debug_endpoints ==
    << <<"/api/v1/debug/server-info", "Server Info">>,
       <<"/api/v1/debug/token-info", "Token Info">>,
       <<"/api/v1/debug/pipelines", "Pipeline Debug">>,
       <<"/api/v1/debug/request-log", "Request Log">> >>

\* f"{name} Debug"
DebugTestName(i) ==
    CASE i = 1 -> "Server Info Debug"
      [] i = 2 -> "Token Info Debug"
      [] i = 3 -> "Pipeline Debug Debug"
      [] OTHER -> "Request Log Debug"

\* mutant of DebugEndpoint: 401 is left out of the accepted statuses
DebugEndpointNo401(o) ==
    IF o.kind # "response" THEN ExceptionVerdict(o)
    ELSE LET details ==
                 IF o.status = 200 THEN <<"Debug endpoint working">>
                 ELSE IF o.status = 404 THEN <<"Not implemented yet (expected)">>
                 ELSE IF o.status = 401 THEN <<"Authentication required">>
                 ELSE <<"Status: ", Str(o.status)>>
             passed == o.status \in {200, 404}
         IN  V(passed, details)

\* test_debug_endpoints: the body of the loop
DebugEndpoint(o) ==
    IF o.kind # "response" THEN ExceptionVerdict(o)
    ELSE LET details ==
                 IF o.status = 200 THEN <<"Debug endpoint working">>
                 ELSE IF o.status = 404 THEN <<"Not implemented yet (expected)">>
                 ELSE IF o.status = 401 THEN <<"Authentication required">>
                 ELSE <<"Status: ", Str(o.status)>>
             passed == o.status \in {200, 404, 401}
         IN  V(passed, details)

\* mutant of SSEConnectException: no handler for requests.exceptions.Timeout
SSEConnectExceptionNoTimeoutCase(o) ==
    V(FALSE, <<"Exception: ", ExcText(o)>>)

\* test_sse_connection: the handler of the outer try for a raised exception
SSEConnectException(o) ==
    IF o.kind = "timeout"
    THEN V(TRUE, <<"Connection timeout (expected if not implemented)">>)
    ELSE V(FALSE, <<"Exception: ", ExcText(o)>>)

\* mutant of SSEFirstEvent: a stream that ends without an event is taken as a pass
SSEFirstEventClosedPasses(o) ==
    CASE o.stream = "data" ->
            V(TRUE, <<"Received SSE event: ", "{}", "...">>)
      [] o.stream = "closed" -> V(TRUE, <<"No events received">>)
      [] o.stream = "timeout" -> V(FALSE, <<"Stream error: ", "Read timed out.">>)
      [] OTHER -> V(FALSE, <<"Stream error: ", "Connection broken">>)

\* test_sse_connection: reading the first event of a 200 response
SSEFirstEvent(o) ==
    CASE o.stream = "data" ->
            V(TRUE, <<"Received SSE event: ", "{}", "...">>)
      [] o.stream = "closed" -> V(FALSE, <<"No events received">>)
      [] o.stream = "timeout" -> V(FALSE, <<"Stream error: ", "Read timed out.">>)
      [] OTHER -> V(FALSE, <<"Stream error: ", "Connection broken">>)

\* test_sse_connection
SSEConnection(o) ==
    IF o.kind # "response" THEN SSEConnectException(o)
    ELSE IF o.status = 200 THEN SSEFirstEvent(o)
    ELSE IF o.status = 404
    THEN V(TRUE, <<"SSE endpoint not implemented yet (expected)">>)
    ELSE V(FALSE, <<"Status: ", Str(o.status)>>)

\* one probe: the request, its verdict and the call of _log_result; verdict maps
\* each outcome the request may meet to what the probe's code logs for it
Probe(here, next, test_name, path, verdict) ==
    /\ pc = here
    /\ \E o \in DOMAIN verdict :
          /\ Meets(o)
          /\ Deviate(o)
          /\ sent' = Append(sent, [path |-> path, outcome |-> o])
          /\ results' = _log_result(results, test_name, verdict[o].passed,
                                    verdict[o].details)
    /\ pc' = next
    /\ UNCHANGED <<base, triageVars, openapiVars>>

\* run_all_tests: the banner, up to the first category
StartRun ==
    /\ pc = "NotStarted"
    /\ pc' = "health_basic"
    /\ UNCHANGED <<idx, results, job_id, sent, saved, exit_code, envVars, triageVars, openapiVars>>

\* mutant of test_health_basic: a failing probe ends the run early
test_health_basic_aborts_on_fail ==
    /\ pc = "health_basic"
    /\ \E o \in GetOutcomes :
          /\ Meets(o)
          /\ Deviate(o)
          /\ sent' = Append(sent, [path |-> "/health", outcome |-> o])
          /\ results' = _log_result(results, "Basic Health Check",
                                    BasicHealthCheck(o).passed,
                                    BasicHealthCheck(o).details)
          /\ pc' = IF BasicHealthCheck(o).passed THEN "health_detailed" ELSE "summary"
    /\ UNCHANGED <<base, triageVars, openapiVars>>
    /\ UNCHANGED <<idx, job_id, saved, exit_code>>

test_health_basic ==
    /\ Probe("health_basic", "health_detailed", "Basic Health Check", "/health",
             [o \in GetOutcomes |-> BasicHealthCheck(o)])
    /\ UNCHANGED <<idx, job_id, saved, exit_code>>

test_health_detailed ==
    /\ Probe("health_detailed", "auth_jobs", "Detailed Health Check",
             "/api/v1/system/health",
             [o \in GetOutcomes |-> DetailedHealthCheck(o)])
    /\ UNCHANGED <<idx, job_id, saved, exit_code>>

test_authentication_jobs ==
    /\ Probe("auth_jobs", "auth_token", "Authentication Test", "/api/v1/jobs",
             [o \in GetOutcomes |-> AuthenticationTest(o)])
    /\ UNCHANGED <<idx, job_id, saved, exit_code>>

test_authentication_token ==
    /\ Probe("auth_token", "pipeline_list", "Token Debug Info",
             "/api/v1/debug/token-info",
             [o \in GetOutcomes |-> TokenDebugInfo(o)])
    /\ UNCHANGED <<idx, job_id, saved, exit_code>>

test_pipelines_list ==
    /\ Probe("pipeline_list", "pipeline_debug", "Pipeline List", "/api/v1/pipelines",
             [o \in GetOutcomes |-> PipelineList(o)])
    /\ UNCHANGED <<idx, job_id, saved, exit_code>>

test_pipelines_debug ==
    /\ Probe("pipeline_debug", "job_list", "Pipeline Debug Info",
             "/api/v1/debug/pipelines",
             [o \in GetOutcomes |-> PipelineDebugInfo(o)])
    /\ UNCHANGED <<idx, job_id, saved, exit_code>>

test_job_list ==
    /\ Probe("job_list", "job_submission", "Job List", "/api/v1/jobs",
             [o \in GetOutcomes |-> JobList(o)])
    /\ UNCHANGED <<idx, job_id, saved, exit_code>>

test_job_submission ==
    /\ Probe("job_submission", "job_status", "Job Submission", "POST /api/v1/jobs/",
             [o \in SubmitOutcomes |-> JobSubmission(o)])
    /\ job_id' = JobIdAfterSubmission(sent'[Len(sent')].outcome)
    /\ UNCHANGED <<idx, saved, exit_code>>

\* test_job_endpoints: "if job_id:" taken
test_job_status ==
    /\ Truthy(job_id)
    /\ Probe("job_status", "missing", "Job Status Retrieval", "/api/v1/jobs/{job_id}",
             [o \in GetOutcomes |-> JobStatusRetrieval(o)])
    /\ idx' = 1
    /\ UNCHANGED <<job_id, saved, exit_code>>

\* test_job_endpoints: "if job_id:" not taken, the function returns
skip_job_status ==
    /\ pc = "job_status"
    /\ ~Truthy(job_id)
    /\ pc' = "missing"
    /\ idx' = 1
    /\ UNCHANGED <<results, job_id, sent, saved, exit_code, envVars, triageVars, openapiVars>>

\* test_missing_endpoints: one iteration of the loop
test_missing_endpoints ==
    /\ Probe("missing", IF idx = Len(missing_endpoints) THEN "debug" ELSE "missing",
             MissingTestName(idx), missing_endpoints[idx][1],
             [o \in GetOutcomes |-> MissingEndpoint(o)])
    /\ idx' = IF idx = Len(missing_endpoints) THEN 1 ELSE idx + 1
    /\ UNCHANGED <<job_id, saved, exit_code>>

\* test_debug_endpoints: one iteration of the loop
test_debug_endpoints ==
    /\ Probe("debug", IF idx = Len(debug_endpoints) THEN "sse" ELSE "debug",
             DebugTestName(idx), debug_endpoints[idx][1],
             [o \in GetOutcomes |-> DebugEndpoint(o)])
    /\ idx' = IF idx = Len(debug_endpoints) THEN 1 ELSE idx + 1
    /\ UNCHANGED <<job_id, saved, exit_code>>

test_sse_connection ==
    /\ Probe("sse", "summary", "SSE Connection",
             "/api/v1/events/stream?token=dev-token",
             [o \in StreamOutcomes |-> SSEConnection(o)])
    /\ UNCHANGED <<idx, job_id, saved, exit_code>>

\* run_all_tests: the summary and the results file, up to "return self.results"
run_all_tests_summary ==
    /\ pc = "summary"
    /\ LET total_tests == results.passed + results.failed
       IN  saved' = [t |-> "dict",
                     v |-> [total_tests |-> total_tests,
                            passed |-> results.passed,
                            failed |-> results.failed,
                            results |-> results.details]]
    /\ pc' = "returned"
    /\ UNCHANGED <<idx, results, job_id, sent, exit_code, envVars, triageVars, openapiVars>>

\* mutant of ExitCode: a single failure is tolerated
ExitCodeOffByOne(res) == IF res.failed > 1 THEN 1 ELSE 0

\* main: exit_code = 1 if results["failed"] > 0 else 0
ExitCode(res) == IF res.failed > 0 THEN 1 ELSE 0

\* main: the lines after run_all_tests returned, sys.exit(exit_code)
main_exit ==
    /\ pc = "returned"
    /\ exit_code' = << ExitCode(results) >>
    /\ pc' = "exited"
    /\ UNCHANGED <<idx, results, job_id, sent, saved, envVars, triageVars, openapiVars>>

(***************************************************************************)
(* diagnose_failed_jobs.py                                                 *)
(***************************************************************************)
\* outcome of one requests.get of the triage: json is the value response.json()
\* returns, or Unparseable when it raises
Unparseable == [t |-> "unparseable"]
TResp(s, j) == [kind |-> "response", status |-> s, json |-> j]
TTimeout == [kind |-> "timeout", status |-> 0, json |-> Unparseable]
TError == [kind |-> "error", status |-> 0, json |-> Unparseable]

\* response.raise_for_status() raises: a 4xx or 5xx status
RaisesForStatus(o) == 400 <= o.status /\ o.status < 600

\* the try/except of the three fetch functions: the parsed body, or None when the
\* request, raise_for_status() or response.json() raised
get_all_jobs(o) ==
    IF o.kind # "response" \/ RaisesForStatus(o) \/ o.json = Unparseable
    THEN None ELSE o.json

get_job_details(o) ==
    IF o.kind # "response" \/ RaisesForStatus(o) \/ o.json = Unparseable
    THEN None ELSE o.json

\* mutant of get_server_health: raise_for_status() is not called
get_server_health_no_raise(o) ==
    IF o.kind # "response" \/ o.json = Unparseable
    THEN None ELSE o.json

get_server_health(o) ==
    IF o.kind # "response" \/ RaisesForStatus(o) \/ o.json = Unparseable
    THEN None ELSE o.json

\* ---- what the server may answer ----
HealthDoc == PyDict([version |-> PyStr("1.3.0"), status |-> PyStr("healthy")])
HealthOutcomes ==
    {TTimeout, TError, TResp(200, HealthDoc), TResp(200, EmptyDict),
     TResp(200, Unparseable), TResp(300, HealthDoc), TResp(404, HealthDoc),
     TResp(500, HealthDoc)}

JobStatuses == {"pending", "processing", "completed", "failed", "error", "cancelled"}
JobMessages == {None, PyStr("disk full")}
Job(i, st, m) ==
    PyDict([id |-> i, status |-> PyStr(st), error_message |-> m])
RECURSIVE JobLists(_)
JobLists(n) ==
    IF n = 0 THEN {<<>>}
    ELSE LET shorter == JobLists(n - 1)
         IN  shorter \cup
             {Append(l, Job(PyInt(Len(l) + 1), st, m)) :
                 l \in {x \in shorter : Len(x) = n - 1},
                 st \in JobStatuses, m \in JobMessages}
JobsDoc(l) == PyDict([total |-> Len(l), jobs |-> l])
JobsOutcomes ==
    {TTimeout, TError, TResp(200, EmptyDict), TResp(200, Unparseable),
     TResp(200, PyDict([total |-> 0])), TResp(300, JobsDoc(<<>>)),
     TResp(401, JobsDoc(<<>>)), TResp(500, JobsDoc(<<>>))}
    \cup {TResp(200, JobsDoc(l)) : l \in JobLists(MaxJobs)}

DetailDoc(i, m) == PyDict([id |-> i, error_message |-> m])
DetailOutcomes(i) ==
    {TError, TResp(404, EmptyDict), TResp(200, EmptyDict),
     TResp(200, PyDict([id |-> i])), TResp(200, DetailDoc(i, PyStr(""))),
     TResp(200, DetailDoc(i, PyStr("OOM")))}

\* mutant of FailedJobs: 'cancelled' is missing from the terminal-status list
FailedJobsNoCancelled(js) ==
    SelectSeq(js, LAMBDA job : Get(job, "status", None) \in
                                 {PyStr("failed"), PyStr("error")})

\* analyze_failed_jobs: the three list comprehensions over jobs
FailedJobs(js) ==
    SelectSeq(js, LAMBDA job : Get(job, "status", None) \in
                                 {PyStr("failed"), PyStr("error"), PyStr("cancelled")})
CompletedJobs(js) ==
    SelectSeq(js, LAMBDA job : Get(job, "status", None) = PyStr("completed"))
PendingJobs(js) ==
    SelectSeq(js, LAMBDA job : Get(job, "status", None) \in
                                 {PyStr("pending"), PyStr("processing")})

\* analyze_failed_jobs: the dict diagnostics as first built (timestamp not modelled)
NewDiagnostics(h, js) ==
    [server |-> [url |-> "http://localhost:18011",
                 version |-> IF Truthy(h) THEN Get(h, "version", None) ELSE None,
                 status |-> IF Truthy(h) THEN Get(h, "status", None) ELSE None],
     summary |-> [total_jobs |-> Len(js),
                  completed |-> Len(CompletedJobs(js)),
                  pending |-> Len(PendingJobs(js)),
                  failed |-> Len(FailedJobs(js))],
     failed_jobs |-> <<>>]

\* mutant of ErrorMessage: the detail-level message is never consulted
ErrorMessageJobOnly(job, details) ==
    IF Truthy(details)
    THEN Get(job, "error_message", None)
    ELSE None

\* analyze_failed_jobs: the value of job_info["error_message"], i.e.
\*   job.get('error_message') or details.get('error_message') if details else None
\* which Python parses as  (a or b) if details else None
ErrorMessage(job, details) ==
    IF Truthy(details)
    THEN PyOr(Get(job, "error_message", None), Get(details, "error_message", None))
    ELSE None

\* analyze_failed_jobs: the dict job_info
JobInfo(job, details) ==
    [job_id |-> Get(job, "id", None),
     status |-> Get(job, "status", None),
     created_at |-> Get(job, "created_at", None),
     updated_at |-> Get(job, "updated_at", None),
     video_filename |-> Get(job, "video_filename", None),
     pipelines |-> Get(job, "pipelines", <<>>),
     error_message |-> ErrorMessage(job, details),
     details |-> details]

\* analyze_failed_jobs: "Checking server health" up to the return or the next step
check_server_health ==
    /\ tpc = "start"
    /\ \E o \in HealthOutcomes :
          /\ fetched' = Append(fetched, [path |-> "/api/v1/system/health", outcome |-> o])
          /\ health' = get_server_health(o)
          /\ tpc' = IF Truthy(get_server_health(o)) THEN "fetch_jobs" ELSE "aborted"
    /\ UNCHANGED <<jobs_response, jobs, failed_jobs, fi, diagnostics, output_file,
                   suiteVars, envVars, openapiVars>>

\* mutant of fetch_all_jobs: the early return "if not failed_jobs: return" is missing
fetch_all_jobs_no_early_return ==
    /\ tpc = "fetch_jobs"
    /\ \E o \in JobsOutcomes :
          LET resp == get_all_jobs(o)
              js == Get(resp, "jobs", <<>>)
          IN  /\ fetched' = Append(fetched, [path |-> "/api/v1/jobs", outcome |-> o])
              /\ jobs_response' = resp
              /\ IF ~Truthy(resp)
                 THEN /\ tpc' = "aborted"
                      /\ UNCHANGED <<jobs, failed_jobs, diagnostics>>
                 ELSE /\ jobs' = js
                      /\ failed_jobs' = FailedJobs(js)
                      /\ tpc' = IF FailedJobs(js) = <<>> THEN "save" ELSE "analyze"
                      /\ diagnostics' = NewDiagnostics(health, js)
    /\ UNCHANGED <<health, fi, output_file, suiteVars, envVars, openapiVars>>

\* analyze_failed_jobs: "Fetching all jobs" up to the return or the loop
fetch_all_jobs ==
    /\ tpc = "fetch_jobs"
    /\ \E o \in JobsOutcomes :
          LET resp == get_all_jobs(o)
              js == Get(resp, "jobs", <<>>)
          IN  /\ fetched' = Append(fetched, [path |-> "/api/v1/jobs", outcome |-> o])
              /\ jobs_response' = resp
              /\ IF ~Truthy(resp)
                 THEN /\ tpc' = "aborted"
                      /\ UNCHANGED <<jobs, failed_jobs, diagnostics>>
                 ELSE /\ jobs' = js
                      /\ failed_jobs' = FailedJobs(js)
                      /\ IF FailedJobs(js) = <<>>
                         THEN /\ tpc' = "done"
                              /\ UNCHANGED diagnostics
                         ELSE /\ tpc' = "analyze"
                              /\ diagnostics' = NewDiagnostics(health, js)
    /\ UNCHANGED <<health, fi, output_file, suiteVars, envVars, openapiVars>>

\* analyze_failed_jobs: one iteration of the loop over failed_jobs
analyze_job ==
    /\ tpc = "analyze"
    /\ LET job == failed_jobs[fi]
           id == Get(job, "id", None)
       IN  \E o \in DetailOutcomes(id) :
              /\ fetched' = Append(fetched, [path |-> <<"/api/v1/jobs/", id>>,
                                             outcome |-> o])
              /\ diagnostics' =
                    [diagnostics EXCEPT !.failed_jobs =
                        Append(@, JobInfo(job, get_job_details(o)))]
    /\ fi' = fi + 1
    /\ tpc' = IF fi = Len(failed_jobs) THEN "save" ELSE "analyze"
    /\ UNCHANGED <<health, jobs_response, jobs, failed_jobs, output_file,
                   suiteVars, envVars, openapiVars>>

\* analyze_failed_jobs: json.dump(diagnostics) into OUTPUT_FILE, to the end
save_diagnostics ==
    /\ tpc = "save"
    /\ output_file' = diagnostics
    /\ tpc' = "done"
    /\ UNCHANGED <<health, jobs_response, jobs, failed_jobs, fi, diagnostics, fetched,
                   suiteVars, envVars, openapiVars>>

\* the five empty lists of check_openapi.py
EmptyEndpoints ==
    [system |-> <<>>, pipeline |-> <<>>, job |-> <<>>, debug |-> <<>>, other |-> <<>>]

\* check_openapi.py before its first statement
OpenApiIdle ==
    /\ opc = "start"
    /\ openapi_spec = None
    /\ paths = {}
    /\ pi = 1
    /\ endpoints = EmptyEndpoints
    /\ spec_file = NoFile

TriageIdle ==
    /\ tpc = "start"
    /\ health = None
    /\ jobs_response = None
    /\ jobs = <<>>
    /\ failed_jobs = <<>>
    /\ fi = 1
    /\ diagnostics = None
    /\ output_file = NoFile
    /\ fetched = <<>>

SuiteIdle ==
    /\ pc = "NotStarted"
    /\ idx = 1
    /\ results = [passed |-> 0, failed |-> 0, details |-> <<>>]
    /\ job_id = None
    /\ sent = <<>>
    /\ saved = NoFile
    /\ exit_code = NotExited

\* APIQuickTester.__init__, against a server of any base behaviour
SuiteInit ==
    /\ SuiteIdle
    /\ TriageIdle
    /\ OpenApiIdle
    /\ base \in BaseOutcomes
    /\ dev = 0

SuiteNext ==
    \/ StartRun
    \/ test_health_basic
    \/ test_health_detailed
    \/ test_authentication_jobs
    \/ test_authentication_token
    \/ test_pipelines_list
    \/ test_pipelines_debug
    \/ test_job_list
    \/ test_job_submission
    \/ test_job_status
    \/ skip_job_status
    \/ test_missing_endpoints
    \/ test_debug_endpoints
    \/ test_sse_connection
    \/ run_all_tests_summary
    \/ main_exit

SuiteSpec == SuiteInit /\ [][SuiteNext]_vars

\* the start of analyze_failed_jobs
TriageInit ==
    /\ TriageIdle
    /\ SuiteIdle
    /\ OpenApiIdle
    /\ base = R(200)
    /\ dev = 0

TriageNext ==
    \/ check_server_health
    \/ fetch_all_jobs
    \/ analyze_job
    \/ save_diagnostics

TriageSpec == TriageInit /\ [][TriageNext]_vars

(***************************************************************************)
(* check_openapi.py: fetch the OpenAPI document, group its paths, save it. *)
(***************************************************************************)
\* the server accepts the connection and never sends a response
Silent == [kind |-> "silent", status |-> 0, json |-> Unparseable]
\* the call never returns
Never == [kind |-> "never", status |-> 0, json |-> Unparseable]
\* no timeout argument
NoTimeout == None

\* requests.get(url, timeout=timeout): without a timeout the call waits for the
\* response for ever
RequestsGet(o, timeout) ==
    IF o.kind = "silent"
    THEN IF timeout = None THEN Never ELSE TTimeout
    ELSE o

\* path strings, each the sequence of its pieces ("/jobs" is "/", "job", "s"),
\* listed in the order of Python's string comparison
PathUniverse ==
    << <<"/", "api", "/", "v1", "/", "debug">>,
       <<"/", "api", "/", "v1", "/", "debug", "/", "job", "s", "/", "{job_id}">>,
       <<"/", "api", "/", "v1", "/", "debug", "/", "pipeline", "s">>,
       <<"/", "api", "/", "v1", "/", "debug", "/", "server-info">>,
       <<"/", "api", "/", "v1", "/", "job", "s">>,
       <<"/", "api", "/", "v1", "/", "pipeline", "s">>,
       <<"/", "api", "/", "v1", "/", "system">>,
       <<"/", "api", "/", "v1", "/", "system", "/", "health">>,
       <<"/", "api", "/", "v1", "/", "system", "/", "pipeline", "s">>,
       <<"/", "health">> >>
AllPaths == {PathUniverse[k] : k \in DOMAIN PathUniverse}

\* sub in s
InStr(sub, s) ==
    \E k \in 0 .. (Len(s) - Len(sub)) :
        \A j \in 1 .. Len(sub) : s[k + j] = sub[j]

\* sorted(keys)
Sorted(keys) == SelectSeq(PathUniverse, LAMBDA p : p \in keys)

\* mutant of Classify: the debug rule is tried first
ClassifyDebugFirst(p) ==
    IF InStr(<<"/", "debug", "/">>, p) THEN "debug"
    ELSE IF InStr(<<"/", "system", "/">>, p) THEN "system"
    ELSE IF InStr(<<"/", "pipeline">>, p) THEN "pipeline"
    ELSE IF InStr(<<"/", "job">>, p) THEN "job"
    ELSE "other"

\* the if / elif chain of the grouping loop: the list a path is appended to
Classify(p) ==
    IF InStr(<<"/", "system", "/">>, p) THEN "system"
    ELSE IF InStr(<<"/", "pipeline">>, p) THEN "pipeline"
    ELSE IF InStr(<<"/", "job">>, p) THEN "job"
    ELSE IF InStr(<<"/", "debug", "/">>, p) THEN "debug"
    ELSE "other"

\* OpenAPI documents: a dict with a 'paths' dict of at most MaxPaths keys, or a
\* dict without 'paths'
OpenApiDocs ==
    {PyDict("paths" :> S) : S \in {T \in SUBSET AllPaths : Cardinality(T) <= MaxPaths}}
    \cup {PyDict("info" :> PyStr("VideoAnnotator"))}

\* what GET /openapi.json may meet
OpenApiOutcomes ==
    {TResp(200, d) : d \in OpenApiDocs}
    \cup {TResp(200, Unparseable), TResp(404, Unparseable), TResp(500, Unparseable),
          TError, Silent}

\* response = requests.get(...); if response.status_code == 200: openapi_spec =
\* response.json(); paths = openapi_spec.get('paths', {}); the five empty lists
fetch_openapi ==
    /\ opc = "start"
    /\ \E o \in OpenApiOutcomes :
          LET response == RequestsGet(o, NoTimeout)
          IN  IF response.kind = "never"
              THEN /\ opc' = "blocked"
                   /\ UNCHANGED <<openapi_spec, paths, endpoints>>
              ELSE IF response.kind # "response"
              THEN /\ opc' = "crashed"
                   /\ UNCHANGED <<openapi_spec, paths, endpoints>>
              ELSE IF response.status # 200
              THEN /\ opc' = "done"
                   /\ UNCHANGED <<openapi_spec, paths, endpoints>>
              ELSE IF response.json = Unparseable
              THEN /\ opc' = "crashed"
                   /\ UNCHANGED <<openapi_spec, paths, endpoints>>
              ELSE /\ openapi_spec' = response.json
                   /\ paths' = Get(response.json, "paths", {})
                   /\ endpoints' = EmptyEndpoints
                   /\ opc' = "classify"
    /\ UNCHANGED <<pi, spec_file, suiteVars, triageVars, envVars>>

\* one iteration of: for path in sorted(paths.keys())
classify_path ==
    /\ opc = "classify"
    /\ pi <= Len(Sorted(paths))
    /\ LET p == Sorted(paths)[pi]
       IN  endpoints' = [endpoints EXCEPT ![Classify(p)] = Append(@, p)]
    /\ pi' = pi + 1
    /\ UNCHANGED <<opc, openapi_spec, paths, spec_file, suiteVars, triageVars, envVars>>

\* after the loop: the report, then json.dump(openapi_spec, f)
save_spec ==
    /\ opc = "classify"
    /\ pi > Len(Sorted(paths))
    /\ spec_file' = openapi_spec
    /\ opc' = "done"
    /\ UNCHANGED <<openapi_spec, paths, pi, endpoints, suiteVars, triageVars, envVars>>

\* the start of the script
OpenApiInit ==
    /\ OpenApiIdle
    /\ SuiteIdle
    /\ TriageIdle
    /\ base = R(200)
    /\ dev = 0

OpenApiNext ==
    \/ fetch_openapi
    \/ classify_path
    \/ save_spec

\* the interpreter runs the script's next statement as long as there is one
OpenApiSpec == OpenApiInit /\ [][OpenApiNext]_vars /\ WF_vars(OpenApiNext)

(***************************************************************************)
(* Properties of the quick-test suite (SuiteSpec).                         *)
(***************************************************************************)
Entries == DOMAIN results.details
Entry(i) == results.details[i]
\* the outcome the i-th verdict was derived from: each request is logged once
OutcomeOf(i) == sent[i].outcome
Received(i) == OutcomeOf(i).kind = "response"
BodyParses(i) == OutcomeOf(i).body # "malformed"
CountOf(b) == Cardinality({i \in Entries : Entry(i).passed = b})
EntriesOf(name) == {i \in Entries : Entry(i).test = name}
AfterJobs == {"missing", "debug", "sse", "summary", "returned", "exited"}
AfterSSE == {"summary", "returned", "exited"}

\* C1: in every state of a run, passed + failed is the number of entries of
\* details, which is the number of probes executed; passed counts the entries
\* with passed = true and failed those with passed = false; once the dependent
\* probe was skipped there is no entry for it
C1_CountsMatchDetails ==
    /\ results.passed + results.failed = Len(results.details)
    /\ Len(results.details) = Len(sent)
    /\ results.passed = CountOf(TRUE)
    /\ results.failed = CountOf(FALSE)
    /\ (pc \in AfterJobs /\ ~Truthy(job_id)) =>
          /\ EntriesOf("Job Status Retrieval") = {}
          /\ Len(results.details) = Len(sent)

C1_Witness ==
    /\ pc = "exited"
    /\ ~Truthy(job_id)
    /\ results.passed > 0
    /\ results.failed > 0
    /\ Len(results.details) = 17

MissingNames == {MissingTestName(i) : i \in DOMAIN missing_endpoints}

\* C2: a probe of test_missing_endpoints that received a status passes on 404,
\* passes on 200 with a detail different from the one of the 404 pass, and fails
\* on every other status
C2_MissingEndpointPolicy ==
    \A i \in Entries :
        (Entry(i).test \in MissingNames /\ Received(i)) =>
            /\ OutcomeOf(i).status = 404 => Entry(i).passed
            /\ OutcomeOf(i).status = 200 =>
                  /\ Entry(i).passed
                  /\ Entry(i).details # MissingEndpoint(R(404)).details
            /\ OutcomeOf(i).status \notin {200, 404} => ~Entry(i).passed

\* the stream timed out before any data line: while connecting or waiting for the
\* headers, or while waiting for the first line of a 200 response
ConnectTimeout(o) == o.kind = "timeout"
FirstLineTimeout(o) == o.kind = "response" /\ o.status = 200 /\ o.stream = "timeout"
ConnectionTimeoutDetail == <<"Connection timeout (expected if not implemented)">>

\* C5 as claimed: whenever the streaming probe timed out before any data line,
\* at either point, exactly one verdict is recorded for it, a pass with the
\* connection-timeout detail
C5_EveryTimeoutPasses ==
    \A i \in Entries :
        (Entry(i).test = "SSE Connection"
            /\ (ConnectTimeout(OutcomeOf(i)) \/ FirstLineTimeout(OutcomeOf(i)))) =>
            /\ Cardinality(EntriesOf("SSE Connection")) = 1
            /\ Entry(i).passed
            /\ Entry(i).details = ConnectionTimeoutDetail

\* C5 amended: a timeout while connecting or waiting for the headers records
\* exactly one verdict, a pass with the connection-timeout detail; a timeout while
\* waiting for the first line of a 200 response records exactly one verdict, a
\* fail whose detail starts with "Stream error: "
C5_TimeoutVerdict ==
    /\ pc \in AfterSSE => Cardinality(EntriesOf("SSE Connection")) = 1
    /\ pc \notin AfterSSE => EntriesOf("SSE Connection") = {}
    /\ \A i \in EntriesOf("SSE Connection") :
          /\ ConnectTimeout(OutcomeOf(i)) =>
                /\ Entry(i).passed
                /\ Entry(i).details = ConnectionTimeoutDetail
          /\ FirstLineTimeout(OutcomeOf(i)) =>
                /\ ~Entry(i).passed
                /\ Entry(i).details[1] = "Stream error: "

C5_Witness ==
    /\ pc = "summary"
    /\ ConnectTimeout(OutcomeOf(Len(sent)))
    /\ Entry(Len(sent)).test = "SSE Connection"
    /\ Entry(Len(sent)).passed

\* the Job Submission probe returned a response from which a job id was extracted
YieldsId(o) == o.kind = "response" /\ o.status = 201 /\ o.body = "json"
StatusPath == "/api/v1/jobs/{job_id}"
StatusRequests == {i \in DOMAIN sent : sent[i].path = StatusPath}

\* C7: the Job Status Retrieval probe runs (one request, one verdict) only right
\* after a Job Submission probe whose response yielded a job id; when submission
\* yielded none, no request is sent and no verdict is recorded for it, and the
\* counters hold the verdicts of the other probes only
C7_StatusOnlyAfterId ==
    /\ \A i \in EntriesOf("Job Status Retrieval") :
          /\ i > 1
          /\ Entry(i - 1).test = "Job Submission"
          /\ YieldsId(OutcomeOf(i - 1))
          /\ sent[i].path = StatusPath
    /\ StatusRequests = EntriesOf("Job Status Retrieval")
    /\ Cardinality(StatusRequests) <= 1
    /\ \A i \in EntriesOf("Job Submission") :
          pc \in AfterJobs =>
             IF YieldsId(OutcomeOf(i))
             THEN /\ Cardinality(StatusRequests) = 1
                  /\ Entry(i + 1).test = "Job Status Retrieval"
             ELSE /\ StatusRequests = {}
                  /\ EntriesOf("Job Status Retrieval") = {}
                  /\ results.passed + results.failed =
                        Cardinality({j \in Entries :
                                        Entry(j).test # "Job Status Retrieval"})

C7_Witness ==
    /\ pc = "exited"
    /\ Len(results.details) = 18
    /\ Entry(9).test = "Job Status Retrieval"
    /\ Entry(9).passed

RequiredNames ==
    {"Basic Health Check", "Detailed Health Check", "Pipeline List",
     "Job Status Retrieval"}
AuthGatedNames == {"Authentication Test", "Job List"}

\* C8: a required probe passes exactly when it received status 200 with a body
\* that parses; an auth-gated probe passes exactly when it received 200 with a
\* body that parses, or 401
C8_RequiredAndAuthGated ==
    \A i \in Entries :
        /\ Entry(i).test \in RequiredNames =>
              (Entry(i).passed <=>
                  (Received(i) /\ OutcomeOf(i).status = 200 /\ BodyParses(i)))
        /\ Entry(i).test \in AuthGatedNames =>
              (Entry(i).passed <=>
                  (Received(i) /\ \/ OutcomeOf(i).status = 200 /\ BodyParses(i)
                                  \/ OutcomeOf(i).status = 401))

C8_Witness ==
    /\ pc = "exited"
    /\ \E i \in EntriesOf("Job List") :
          Entry(i).passed /\ OutcomeOf(i).status = 401
    /\ \E i \in EntriesOf("Pipeline List") :
          ~Entry(i).passed /\ OutcomeOf(i).status = 401
    /\ \E i \in EntriesOf("Basic Health Check") :
          Entry(i).passed /\ OutcomeOf(i).status = 200

DebugPaths == {debug_endpoints[i][1] : i \in DOMAIN debug_endpoints}
DebugCategoryNames == {DebugTestName(i) : i \in DOMAIN debug_endpoints}
Lenient(i) == Entry(i).passed <=> OutcomeOf(i).status \in {200, 401, 404}

\* C9 as claimed: every probe of a path under /api/v1/debug/ that received a
\* status passes iff the status is 200, 401 or 404, in whichever category
C9_EveryDebugProbeLenient ==
    \A i \in Entries : (sent[i].path \in DebugPaths /\ Received(i)) => Lenient(i)

\* C9 amended: the four probes of the debug category pass iff the status is 200,
\* 401 or 404; Token Debug Info and Pipeline Debug Info pass iff the status is
\* 404, or 200 with a body that parses, and fail on every other status, 401
\* included
C9_DebugPolicies ==
    \A i \in Entries :
        Received(i) =>
            /\ Entry(i).test \in DebugCategoryNames => Lenient(i)
            /\ Entry(i).test \in {"Token Debug Info", "Pipeline Debug Info"} =>
                  (Entry(i).passed <=>
                      \/ OutcomeOf(i).status = 404
                      \/ OutcomeOf(i).status = 200 /\ BodyParses(i))

C9_Witness ==
    /\ \E i \in EntriesOf("Token Debug Info") :
          ~Entry(i).passed /\ Received(i) /\ OutcomeOf(i).status = 401
    /\ \E i \in EntriesOf("Token Info Debug") :
          Entry(i).passed /\ Received(i) /\ OutcomeOf(i).status = 401

\* C10: the process exits 0 iff no recorded verdict is a fail, and 1 otherwise;
\* the exit code exists only after all seven categories ran (the last verdict is
\* the streaming probe's, the 17th or 18th) and the summary was written
C10_ExitCode ==
    /\ pc = "exited" <=> exit_code # NotExited
    /\ exit_code # NotExited =>
          /\ exit_code \in {<<0>>, <<1>>}
          /\ exit_code = <<0>> <=> results.failed = 0
          /\ exit_code = <<0>> <=> \A i \in Entries : Entry(i).passed
          /\ exit_code = <<1>> <=> \E i \in Entries : ~Entry(i).passed
          /\ Len(results.details) \in {17, 18}
          /\ Entry(Len(results.details)).test = "SSE Connection"
          /\ \A n \in MissingNames \cup DebugCategoryNames
                     \cup (RequiredNames \ {"Job Status Retrieval"})
                     \cup AuthGatedNames
                     \cup {"Token Debug Info", "Pipeline Debug Info", "Job Submission"} :
                EntriesOf(n) # {}

C10_Witness ==
    /\ exit_code = <<0>>
    /\ Len(results.details) = 18

(***************************************************************************)
(* Properties of the job triage (TriageSpec).                              *)
(***************************************************************************)
Records == diagnostics.failed_jobs
JobMessage(k) == Get(failed_jobs[k], "error_message", None)
DetailMessage(k) ==
    IF Records[k].details.t = "dict"
    THEN Get(Records[k].details, "error_message", None)
    ELSE None
HasRecords == tpc \in {"analyze", "save", "done"} /\ diagnostics # None
NoMessageMarker == PyStr("no error message available")

\* C3: the record of a failed job whose list entry carries a non-empty
\* error_message resolves to that message, whether or not the detail fetch
\* succeeded
C3_JobLevelMessageKept ==
    HasRecords =>
        \A k \in DOMAIN Records :
            Truthy(JobMessage(k)) => Records[k].error_message = JobMessage(k)

\* C4 as claimed: without a job-level message the record resolves to the
\* detail-level message; with neither it holds the marker "no error message
\* available"; the resolved message is never empty or null
C4_NeverEmpty ==
    HasRecords =>
        \A k \in DOMAIN Records :
            /\ (~Truthy(JobMessage(k)) /\ Truthy(DetailMessage(k))) =>
                  Records[k].error_message = DetailMessage(k)
            /\ (~Truthy(JobMessage(k)) /\ ~Truthy(DetailMessage(k))) =>
                  Records[k].error_message = NoMessageMarker
            /\ Truthy(Records[k].error_message)

\* C4 amended: without a job-level message the record resolves to the
\* detail-level message m when there is one; with neither, the resolved message
\* is null or empty and never the marker, which is only printed
C4_ResolvedFallback ==
    HasRecords =>
        \A k \in DOMAIN Records :
            /\ (~Truthy(JobMessage(k)) /\ Truthy(DetailMessage(k))) =>
                  Records[k].error_message = DetailMessage(k)
            /\ (~Truthy(JobMessage(k)) /\ ~Truthy(DetailMessage(k))) =>
                  /\ Records[k].error_message \in {None, PyStr("")}
                  /\ Records[k].error_message # NoMessageMarker

C4_Witness ==
    /\ tpc = "done"
    /\ output_file # NoFile
    /\ Len(output_file.failed_jobs) = 2
    /\ ~Truthy(JobMessage(1))
    /\ output_file.failed_jobs[1].error_message = PyStr("OOM")
    /\ ~Truthy(JobMessage(2))
    /\ ~Truthy(DetailMessage(2))
    /\ output_file.failed_jobs[2].error_message = None

\* a fetch failed, as the claim lists it: no response, a status outside 2xx, or a
\* body that does not parse
FetchFailedAnyNon2xx(o) ==
    \/ o.kind # "response"
    \/ ~(200 <= o.status /\ o.status < 300)
    \/ o.json = Unparseable
\* a fetch failed: no response, a 4xx or 5xx status, or a body that does not parse
FetchFailed(o) ==
    \/ o.kind # "response"
    \/ (400 <= o.status /\ o.status < 600)
    \/ o.json = Unparseable

\* C6 as claimed: a failed health fetch (any non-2xx status included) is the last
\* request of the run, and so is a failed job-collection fetch; no bundle is
\* written
C6_AbortOnAnyNon2xx ==
    \A n \in {1, 2} :
        (Len(fetched) >= n /\ FetchFailedAnyNon2xx(fetched[n].outcome)) =>
            /\ Len(fetched) = n
            /\ tpc = "aborted"
            /\ output_file = NoFile

\* C6 amended: a health fetch or job-collection fetch that fails by no response,
\* a 4xx or 5xx status or an unparseable body is the last request of the run (no
\* job list after a failed health fetch, no job detail after either), the run is
\* aborted and no bundle is written
C6_AbortOnFailedFetch ==
    \A n \in {1, 2} :
        (Len(fetched) >= n /\ FetchFailed(fetched[n].outcome)) =>
            /\ Len(fetched) = n
            /\ tpc = "aborted"
            /\ output_file = NoFile

C6_Witness ==
    /\ tpc = "aborted"
    /\ Len(fetched) = 1
    /\ fetched[1].outcome.kind = "response"
    /\ fetched[1].outcome.status = 500

StatusOf(i) == Get(jobs[i], "status", None).v
JobsWithStatus(S) == {i \in DOMAIN jobs : StatusOf(i) \in S}
FailedStatuses == {"failed", "error", "cancelled"}

\* C11: a written bundle counts the completed jobs, the pending or processing
\* jobs and the failed, error or cancelled jobs of the collection, each job in
\* exactly one group; failed_jobs holds one record per failed job in collection
\* order, as many as summary.failed, with a null detail where the detail fetch
\* failed
C11_BundleCounts ==
    output_file # NoFile =>
        LET summary == output_file.summary
            recs == output_file.failed_jobs
            failedIdx == JobsWithStatus(FailedStatuses)
        IN  /\ summary.completed = Cardinality(JobsWithStatus({"completed"}))
            /\ summary.pending = Cardinality(JobsWithStatus({"pending", "processing"}))
            /\ summary.failed = Cardinality(failedIdx)
            /\ summary.total_jobs = Len(jobs)
            /\ summary.completed + summary.pending + summary.failed
                  = summary.total_jobs
            /\ Len(recs) = summary.failed
            /\ \A k \in DOMAIN recs :
                  /\ recs[k].job_id.v \in failedIdx
                  /\ recs[k].job_id = Get(jobs[recs[k].job_id.v], "id", None)
                  /\ recs[k].status = Get(jobs[recs[k].job_id.v], "status", None)
                  /\ k > 1 => recs[k - 1].job_id.v < recs[k].job_id.v
                  /\ FetchFailed(fetched[k + 2].outcome) => recs[k].details = None

C11_Witness ==
    /\ output_file # NoFile
    /\ Len(jobs) = 2
    /\ output_file.summary.completed = 1
    /\ output_file.summary.failed = 1
    /\ Len(output_file.failed_jobs) = 1
    /\ output_file.failed_jobs[1].details = None

\* the fetch gave the run a document it goes on with
Usable(o) == ~FetchFailed(o) /\ Truthy(o.json)
DetailFetches == IF Len(fetched) > 2 THEN Len(fetched) - 2 ELSE 0

\* C17: with health and the job collection fetched and no failed, error or
\* cancelled job, the run ends after the second request and writes no bundle; at
\* the end of a run a bundle exists iff both fetches succeeded and some job is
\* failed; it is written once, after the record of the last failed job, and
\* nothing follows it
C17_BundleIffFailedJobs ==
    /\ (Len(fetched) >= 2 /\ Usable(fetched[1].outcome) /\ Usable(fetched[2].outcome)
          /\ JobsWithStatus(FailedStatuses) = {}) =>
            /\ Len(fetched) = 2
            /\ tpc = "done"
            /\ output_file = NoFile
    /\ tpc \in {"done", "aborted"} =>
          (output_file # NoFile <=>
              /\ Len(fetched) >= 2
              /\ Usable(fetched[1].outcome)
              /\ Usable(fetched[2].outcome)
              /\ JobsWithStatus(FailedStatuses) # {})
    /\ DetailFetches <= Cardinality(JobsWithStatus(FailedStatuses))
    /\ output_file # NoFile =>
          /\ tpc = "done"
          /\ output_file = diagnostics
          /\ Len(output_file.failed_jobs) = Len(failed_jobs)
          /\ DetailFetches = Len(failed_jobs)
          /\ ~ENABLED TriageNext

C17_Witness ==
    /\ tpc = "done"
    /\ Len(fetched) = 2
    /\ Len(jobs) = 2
    /\ JobsWithStatus(FailedStatuses) = {}
    /\ output_file = NoFile

Contains(d, tok) == \E k \in DOMAIN d : d[k] = tok
StatusTexts == {Str(st) : st \in {200, 201, 300, 401, 404, 422, 500}}

\* C13 as claimed: the detail of every verdict contains the status code of the
\* response it was derived from, or "no response" when there was none
C13_DetailEchoesStatus ==
    \A i \in Entries :
        IF Received(i)
        THEN Contains(Entry(i).details, Str(OutcomeOf(i).status))
        ELSE Contains(Entry(i).details, "no response")

StatusPrefixNames ==
    RequiredNames \cup AuthGatedNames \cup {"Job Submission"} \cup MissingNames
\* the probe parses the body of this response, and that raises
BodyRaised(i) ==
    /\ Entry(i).test \notin MissingNames
    /\ OutcomeOf(i).status = (IF Entry(i).test = "Job Submission" THEN 201 ELSE 200)
    /\ ~BodyParses(i)
\* the statuses for which a probe that states no "Status:" prefix has a fixed text
FixedTextStatuses(name) ==
    IF name \in DebugCategoryNames THEN {200, 401, 404} ELSE {200, 404}

\* C13 amended: the probes of the health category, Authentication Test, Pipeline
\* List, the jobs category and the missing-endpoints category start their detail
\* with "Status: <code>" whenever a response arrived and handling its body did
\* not raise; Token Debug Info, Pipeline Debug Info, the debug category and the
\* streaming probe state the code only for a status outside 200, 404 (and 401 in
\* the debug category); with no response the detail is "Exception: <text>" or the
\* connection-timeout text, without a code, and no detail says "no response"
C13_DetailStatusWhereStated ==
    \A i \in Entries :
        /\ ~Contains(Entry(i).details, "no response")
        /\ (Received(i) /\ Entry(i).test \in StatusPrefixNames /\ ~BodyRaised(i)) =>
              /\ Entry(i).details[1] = "Status: "
              /\ Entry(i).details[2] = Str(OutcomeOf(i).status)
        /\ (Received(i) /\ Entry(i).test \notin StatusPrefixNames) =>
              (Contains(Entry(i).details, Str(OutcomeOf(i).status)) <=>
                  OutcomeOf(i).status \notin FixedTextStatuses(Entry(i).test))
        /\ (~Received(i) \/ (Entry(i).test \in StatusPrefixNames /\ BodyRaised(i))) =>
              /\ \A c \in StatusTexts : ~Contains(Entry(i).details, c)
              /\ \/ Entry(i).details[1] = "Exception: "
                 \/ Entry(i).details = ConnectionTimeoutDetail

C13_Witness ==
    /\ pc = "exited"
    /\ \E i \in EntriesOf("Token Info Debug") :
          /\ Received(i)
          /\ OutcomeOf(i).status = 200
          /\ Entry(i).details = <<"Debug endpoint working">>
    /\ \E i \in EntriesOf("Basic Health Check") :
          /\ ~Received(i)
          /\ Entry(i).details[1] = "Exception: "
    /\ \E i \in EntriesOf("Pipeline List") :
          /\ Received(i)
          /\ Contains(Entry(i).details, "200")

\* the test names of a completed run, in the order of run_all_tests; withStatus
\* says whether the dependent Job Status Retrieval probe ran
Catalog(withStatus) ==
    <<"Basic Health Check", "Detailed Health Check", "Authentication Test",
      "Token Debug Info", "Pipeline List", "Pipeline Debug Info", "Job List",
      "Job Submission">>
    \o (IF withStatus THEN <<"Job Status Retrieval">> ELSE <<>>)
    \o [i \in DOMAIN missing_endpoints |-> MissingTestName(i)]
    \o [i \in DOMAIN debug_endpoints |-> DebugTestName(i)]
    \o <<"SSE Connection">>

\* the category a position belongs to
Category(p) ==
    CASE p = "NotStarted" -> "NotStarted"
      [] p \in {"health_basic", "health_detailed"} -> "health"
      [] p \in {"auth_jobs", "auth_token"} -> "auth"
      [] p \in {"pipeline_list", "pipeline_debug"} -> "pipelines"
      [] p \in {"job_list", "job_submission", "job_status"} -> "jobs"
      [] p = "missing" -> "missing-endpoints"
      [] p = "debug" -> "debug"
      [] p = "sse" -> "streaming"
      [] OTHER -> "Completed"

\* the number of verdicts recorded when the run is in a category, at the least and
\* at the most; s is 1 when the dependent probe ran
VerdictsIn(c, s) ==
    CASE c = "NotStarted" -> {0}
      [] c = "health" -> {0, 1}
      [] c = "auth" -> {2, 3}
      [] c = "pipelines" -> {4, 5}
      [] c = "jobs" -> {6, 7, 8}
      [] c = "missing-endpoints" -> {8 + s + k : k \in 0 .. 3}
      [] c = "debug" -> {12 + s + k : k \in 0 .. 3}
      [] c = "streaming" -> {16 + s}
      [] OTHER -> {17 + s}

\* C14: whatever the outcomes, the verdicts recorded so far are the first entries
\* of the catalog, in catalog order, one per request sent, none twice; the number
\* of them is the one of the category the run is in, so no category is entered
\* before the ones ahead of it are done; the run can always take a further step
\* until it has exited; a completed run holds 17 verdicts, 18 when job submission
\* yielded an id
C14_CatalogOrder ==
    LET ran == pc \in AfterJobs /\ Truthy(job_id)
        s == IF ran THEN 1 ELSE 0
        n == Len(results.details)
    IN  /\ n = Len(sent)
        /\ n \in VerdictsIn(Category(pc), s)
        /\ n <= Len(Catalog(ran))
        /\ \A i \in Entries : Entry(i).test = Catalog(ran)[i]
        /\ pc # "exited" => ENABLED SuiteNext
        /\ Category(pc) = "Completed" =>
              /\ n = (IF Truthy(job_id) THEN 18 ELSE 17)
              /\ [i \in Entries |-> Entry(i).test] = Catalog(Truthy(job_id))

C14_Witness ==
    /\ pc = "exited"
    /\ Len(results.details) = 17
    /\ ~Entry(1).passed
    /\ ~Received(2)
    /\ ConnectTimeout(OutcomeOf(17))

\* C15 as claimed: the streaming verdict is a pass only if a first line was
\* received or the connection timed out; any other outcome, a 404 included, fails
C15_PassOnlyLineOrTimeout ==
    \A i \in EntriesOf("SSE Connection") :
        Entry(i).passed =>
            \/ ConnectTimeout(OutcomeOf(i))
            \/ /\ Received(i)
               /\ OutcomeOf(i).status = 200
               /\ OutcomeOf(i).stream = "data"

\* C15 amended: the streaming verdict is a pass exactly when a first data line
\* was received from a 200 stream, the connection timed out, or the status is
\* 404; every other outcome fails: another non-200 status, a 200 stream that
\* closes or breaks without a line, a connection error that is no timeout
C15_StreamVerdict ==
    \A i \in EntriesOf("SSE Connection") :
        Entry(i).passed <=>
            \/ ConnectTimeout(OutcomeOf(i))
            \/ /\ Received(i)
               /\ OutcomeOf(i).status = 200
               /\ OutcomeOf(i).stream = "data"
            \/ /\ Received(i)
               /\ OutcomeOf(i).status = 404

C15_Witness ==
    \E i \in EntriesOf("SSE Connection") :
        /\ Received(i)
        /\ OutcomeOf(i).status = 200
        /\ OutcomeOf(i).stream = "closed"
        /\ ~Entry(i).passed

(***************************************************************************)
(* Properties of the OpenAPI endpoint check (OpenApiSpec).                 *)
(***************************************************************************)
Buckets == {"system", "pipeline", "job", "debug", "other"}
Priority == <<"system", "pipeline", "job", "debug">>
\* the substring a rule looks for
Needle(rule) ==
    CASE rule = "system" -> <<"/", "system", "/">>
      [] rule = "pipeline" -> <<"/", "pipeline">>
      [] rule = "job" -> <<"/", "job">>
      [] rule = "debug" -> <<"/", "debug", "/">>
Matching(p) == {k \in DOMAIN Priority : InStr(Needle(Priority[k]), p)}
FirstMatch(p) ==
    IF Matching(p) = {} THEN "other"
    ELSE Priority[CHOOSE k \in Matching(p) : \A m \in Matching(p) : k <= m]
\* the part of the input the loop has gone through
Processed == SubSeq(Sorted(paths), 1, pi - 1)
Occurrences(p, s) == Cardinality({j \in DOMAIN s : s[j] = p})
BucketTotal ==
    Len(endpoints.system) + Len(endpoints.pipeline) + Len(endpoints.job)
        + Len(endpoints.debug) + Len(endpoints.other)

\* C12: every path the loop has gone through is in exactly one of the five
\* buckets, once, namely the bucket of the first rule it matches in the order
\* system, pipeline, job, debug, else other; the buckets hold nothing else, their
\* total size is the number of paths gone through, after the loop that is the
\* size of the input, and an empty input leaves five empty buckets
C12_BucketsPartitionInput ==
    /\ \A k \in DOMAIN Processed : \A b \in Buckets :
          Occurrences(Processed[k], endpoints[b]) =
              (IF b = FirstMatch(Processed[k]) THEN 1 ELSE 0)
    /\ \A b \in Buckets : \A j \in DOMAIN endpoints[b] :
          \E k \in DOMAIN Processed : Processed[k] = endpoints[b][j]
    /\ BucketTotal = Len(Processed)
    /\ spec_file # NoFile => BucketTotal = Cardinality(paths)
    /\ paths = {} => endpoints = EmptyEndpoints

C12_Witness ==
    /\ spec_file # NoFile
    /\ Cardinality(paths) = MaxPaths
    /\ \E p \in paths :
          /\ Cardinality(Matching(p)) > 1
          /\ InStr(Needle("debug"), p)
          /\ Occurrences(p, endpoints.pipeline) = 1
    /\ endpoints.other # <<>>

\* C16: the run of the endpoint check ends, normally or with an uncaught
\* exception, whatever the server does, a server included that accepts the
\* connection and never responds
C16_RunTerminates == <>(opc \in {"done", "crashed"})

====
